---- MODULE Spec2Model ----
(***************************************************************************)
(* A model of noodle_grid's playback controller, recompute path, probe     *)
(* collection and probe update pipeline.                                   *)
(*                                                                         *)
(* Processes: "main" (GridState::new, post_setup and the initial recompute *)
(* of main.rs), "handler" (the method handlers of methods.rs, run by the   *)
(* scene server once it serves clients), "watcher" (advance_watcher),      *)
(* "pipe" (probe_service / update_probes) and the timer tasks              *)
(* (advance_timer), which take no lock.                                    *)
(*                                                                         *)
(* The two mutexes are modelled by held[p], the locks process p holds in   *)
(* the order it took them.  The dispatch of a method handler is library    *)
(* code: a handler body runs with both GridState and ServerState borrowed  *)
(* mutably, so a handler takes both locks in one step.                     *)
(***************************************************************************)
EXTENDS Integers, Sequences, FiniteSets

\* ------------------------------------------------------------- bounds
MaxTime == 3       \* number of timesteps of the loaded dataset (max_time_step)
MaxTimers == 2     \* timer tasks that may be alive at once
MaxCreate == 6     \* probes ever created in the probe specification
MaxMoves == 1      \* SetPosition calls on probes in the probe specification
FewCreate == 2     \* probes ever created in the probe move specification
FewMoves == 2      \* SetPosition calls on probes in the probe move specification
SmallOps == 2      \* probe creations and probe moves in the full specification
RcQueueMax == 1    \* advance signals queued in the recompute specification
SmallQueue == 1    \* advance signals queued in the full specification
DsCreate == 1      \* probes ever created in the dataset specification
DsMoves == 2       \* SetPosition calls on probes in the dataset specification
GoneCreate == 6    \* probes ever created while the collection changes under a pass
GoneMoves == 2     \* SetPosition calls on probes there
LineCreate == 1    \* probes ever created while the time index moves under a pass
LineMoves == 2     \* SetPosition calls on probes there
MaxLines == 2      \* lines handed to an instance builder
VoltSteps == 200   \* voltages examined from 0.9 up, in steps of 0.001

\* -------------------------------------------------- program constants
QueueCap == 16              \* tokio::sync::mpsc::channel(16)
ProbeCap == 5               \* if gs.probes.len() >= 5
I32Max == 2147483647
I32Min == -2147483647 - 1
UsizeMax == 2147483647      \* stands for usize::MAX (saturating f32 -> usize cast)

Procs == {"main", "handler", "watcher", "pipe"}
Timers == 1..MaxTimers
Phases == <<"A", "B", "C">>

VARIABLES
    \* GridState (state.rs:135-161, fields used by methods.rs)
    time_step, time_step_direction, active_timer,
    line_buffer, transformer_buffer, gen_buffer,
    probes,
    \* the scene (ServerState): the instance buffers bound to the entities
    scene,
    \* channels and tasks
    queue,            \* advance signals in the bounded mpsc channel
    timers,           \* the advance_timer tasks
    watcherPc,        \* advance_watcher
    probe_signal,     \* wake-ups in the unbounded probe channel
    pipePc,           \* probe_service / update_probes
    image_to_generate,\* update_probes' local map
    mainPc,           \* main()
    rc,               \* the recompute_all in progress: who runs it, and where it is
    held,             \* locks held by each process, in acquisition order
    poisoned,         \* the GridState mutex is poisoned (a holder panicked)
    \* bookkeeping of the model
    nCreated, nMoves, \* probes created / probe moves issued so far
    advAfterStop,     \* Advances processed since the last stop request (-1: none pending)
    replayed,         \* a nonzero PlayTime arrived while the current timer was running
    ignored,          \* a call without a resolvable entity context was handled
    \* the loaded dataset (PowerSystem), fixed once loaded
    system,
    \* GridState.show_line_load: the display mode (line load instead of voltage)
    show_line_load,
    \* what the last stage 3 that found a requested probe gone did: the probes
    \* it installed a chart on and the entries it dropped
    dropped,
    \* the argument and the result of the function a specification examines
    input, output

vars == <<time_step, time_step_direction, active_timer, line_buffer,
          transformer_buffer, gen_buffer, probes, scene, queue, timers,
          watcherPc, probe_signal, pipePc, image_to_generate, mainPc, rc,
          held, poisoned, nCreated, nMoves, advAfterStop, replayed, ignored,
          system, show_line_load, dropped, input, output>>

timeVars == <<time_step, time_step_direction, active_timer, advAfterStop, replayed>>
bufVars == <<line_buffer, transformer_buffer, gen_buffer>>
probeVars == <<probes, probe_signal, pipePc, image_to_generate, nCreated, nMoves>>
pureVars == <<input, output>>
auxVars == <<ignored, system, show_line_load, dropped, pureVars>>
progVars == <<timeVars, bufVars, probeVars, scene, queue, timers, watcherPc,
              mainPc, rc, held, poisoned, ignored, system, show_line_load,
              dropped>>

\* ------------------------------------------------------------ helpers
Range(s) == {s[i] : i \in 1..Len(s)}

Min(a, b) == IF a < b THEN a ELSE b

\* Ord::clamp / i32::clamp
Clamp(x, lo, hi) == IF x < lo THEN lo ELSE IF x > hi THEN hi ELSE x

\* Rust's % on i32: the remainder has the sign of the dividend
RustRem(a, b) == IF a >= 0 THEN a % b ELSE 0 - ((0 - a) % b)

Free(l) == \A p \in Procs : l \notin Range(held[p])

\* ------------------------------------------------ argument decoding
\* A CBOR argument as the client may send it: kind "bad" is a value that
\* does not decode to the expected type.  An f32 argument is a number in
\* halves (v stands for v/2), NaN or +infinity.
Arg(k, v) == [k |-> k, v |-> v]
F32Args == {Arg("bad", 0), Arg("nan", 0), Arg("inf", 0)}
             \cup {Arg("num", v) : v \in {-3, 0, 3, 2 * MaxTime - 2,
                                           2 * MaxTime, 2 * MaxTime + 3}}
I32Args == {Arg("bad", 0)}
             \cup {Arg("num", v) : v \in {I32Min, -1, 0, 1, I32Max}}

\* from_cbor(time).unwrap_or_default() for f32: 0.0 when it does not decode
FromCborF32(a) == IF a.k = "bad" THEN Arg("num", 0) ELSE a

\* `time as usize` for f32: NaN and negatives give 0, too large saturates,
\* otherwise the fraction is dropped
F32AsUsize(f) ==
    IF f.k = "nan" THEN 0
    ELSE IF f.k = "inf" THEN UsizeMax
    ELSE IF f.v < 0 THEN 0
    ELSE f.v \div 2

\* from_cbor(time).unwrap_or_default() for i32: 0 when it does not decode
FromCborI32(a) == IF a.k = "bad" THEN 0 ELSE a.v

\* ------------------------------------------------------- time index
\* set_time: the clamp of the decoded time
SetTimeClampUpTo(t) == Clamp(t, 0, MaxTime)
SetTimeClamp(t) == Clamp(t, 0, MaxTime - 1)

SetTimeValue(a) == SetTimeClamp(F32AsUsize(FromCborF32(a)))

\* step_time: `app.time_step as i32 + time` leaves the i32 range
StepOverflows(ts, d) == d > I32Max - ts

\* step_time: the sum as a release build computes it (two's complement wrap)
StepSum(ts, d) ==
    IF StepOverflows(ts, d) THEN I32Min + (d - (I32Max - ts) - 1) ELSE ts + d

StepTimeValue(ts, d) == Clamp(StepSum(ts, d), 0, MaxTime - 1)

\* advance_watcher: (time_step + direction) % max, plus max when negative
AdvanceTimeNoWrap(ts, dir) == RustRem(ts + dir, MaxTime)
\* the advance taken as one step forward whatever the direction
AdvanceTimeForward(ts, dir) == RustRem(ts + 1, MaxTime)
AdvanceTime(ts, dir) ==
    LET new_time == RustRem(ts + dir, MaxTime)
    IN  IF new_time < 0 THEN new_time + MaxTime ELSE new_time

\* GridState::new: time_step: (ts_len / 2).clamp(0, ts_len)
InitialTimeStep == Clamp(MaxTime \div 2, 0, MaxTime)

\* ----------------------------------------------------- recompute_all
\* An instance buffer is the sequence of the blocks appended to it; a block
\* is named by its category, its phase, the timestep it was read from and
\* the display mode its heights were computed in (recompute_lines and
\* recompute_gens take the mode, recompute_tfs does not).
Block(cat, ph, ts, mode) == <<cat, ph, ts, mode>>
LineBlocksIn(ts, mode) == [i \in 1..3 |-> Block("line", Phases[i], ts, mode)]
TfBlocks(ts) == [i \in 1..3 |-> Block("tf", Phases[i], ts, FALSE)]
GenBlocksIn(ts, mode) == <<Block("gen", "A", ts, mode)>>
LineBlocks(ts) == LineBlocksIn(ts, show_line_load)
GenBlocks(ts) == GenBlocksIn(ts, show_line_load)

NoInstances == <<>>
EmptyScene == [line |-> NoInstances, tf |-> NoInstances, gen |-> NoInstances]
SceneFor(ts) == [line |-> LineBlocks(ts), tf |-> TfBlocks(ts), gen |-> GenBlocks(ts)]

\* recompute_all as a whole: every buffer cleared and rebuilt from the
\* current timestep, then each uploaded to its entity
RecomputeAll(ts) ==
    /\ line_buffer' = <<>> \o LineBlocks(ts)
    /\ transformer_buffer' = <<>> \o TfBlocks(ts)
    /\ gen_buffer' = <<>> \o GenBlocks(ts)
    /\ scene' = [line |-> line_buffer', tf |-> transformer_buffer', gen |-> gen_buffer']

\* recompute_all step by step, for the specification that observes it.
\* What the owner of a finished recompute does next: its guards drop.
ReturnFrom(p) ==
    /\ held' = [held EXCEPT ![p] = <<>>]
    /\ rc' = [owner |-> "none", pc |-> "idle"]
    /\ mainPc' = IF p = "main" THEN "serving" ELSE mainPc
    /\ watcherPc' = IF p = "watcher" THEN "recv" ELSE watcherPc

StartRecompute(p) == rc' = [owner |-> p, pc |-> "clear"]

\* recompute_all: the three clear() calls
RcClear ==
    /\ rc.pc = "clear"
    /\ line_buffer' = <<>>
    /\ transformer_buffer' = <<>>
    /\ gen_buffer' = <<>>
    /\ rc' = [rc EXCEPT !.pc = "lines"]
    /\ UNCHANGED <<timeVars, probeVars, scene, queue, timers, watcherPc,
                   mainPc, held, poisoned, auxVars>>

\* recompute_all: the three recompute_lines calls (phases A, B, C)
RcLines ==
    /\ rc.pc = "lines"
    /\ line_buffer' = line_buffer \o LineBlocks(time_step)
    /\ rc' = [rc EXCEPT !.pc = "tfs"]
    /\ UNCHANGED <<timeVars, probeVars, transformer_buffer, gen_buffer, scene,
                   queue, timers, watcherPc, mainPc, held, poisoned, auxVars>>

\* recompute_all: the three recompute_tfs calls
RcTfs ==
    /\ rc.pc = "tfs"
    /\ transformer_buffer' = transformer_buffer \o TfBlocks(time_step)
    /\ rc' = [rc EXCEPT !.pc = "gens"]
    /\ UNCHANGED <<timeVars, probeVars, line_buffer, gen_buffer, scene,
                   queue, timers, watcherPc, mainPc, held, poisoned, auxVars>>

\* recompute_all: recompute_gens
RcGens ==
    /\ rc.pc = "gens"
    /\ gen_buffer' = gen_buffer \o GenBlocks(time_step)
    /\ rc' = [rc EXCEPT !.pc = "up_line"]
    /\ UNCHANGED <<timeVars, probeVars, line_buffer, transformer_buffer, scene,
                   queue, timers, watcherPc, mainPc, held, poisoned, auxVars>>

\* update_buffers of the line entity (the variant lets go of the scene lock
\* once the first buffer is uploaded)
UploadLinesUnlocked ==
    /\ scene' = [scene EXCEPT !.line = line_buffer]
    /\ held' = [held EXCEPT ![rc.owner] = <<"gs">>]
UploadLines ==
    /\ scene' = [scene EXCEPT !.line = line_buffer]
    /\ held' = held

RcUpLine ==
    /\ rc.pc = "up_line"
    /\ UploadLines
    /\ rc' = [rc EXCEPT !.pc = "up_tf"]
    /\ UNCHANGED <<timeVars, probeVars, bufVars, queue, timers, watcherPc,
                   mainPc, poisoned, auxVars>>

\* update_buffers of the transformer entity
RcUpTf ==
    /\ rc.pc = "up_tf"
    /\ scene' = [scene EXCEPT !.tf = transformer_buffer]
    /\ rc' = [rc EXCEPT !.pc = "up_gen"]
    /\ UNCHANGED <<timeVars, probeVars, bufVars, queue, timers, watcherPc,
                   mainPc, held, poisoned, auxVars>>

\* update_buffers of the generator entity; recompute_all returns and its
\* caller drops the guards
RcUpGen ==
    /\ rc.pc = "up_gen"
    /\ scene' = [scene EXCEPT !.gen = gen_buffer]
    /\ ReturnFrom(rc.owner)
    /\ UNCHANGED <<timeVars, probeVars, bufVars, queue, timers, poisoned, auxVars>>

RecomputeSteps ==
    RcClear \/ RcLines \/ RcTfs \/ RcGens \/ RcUpLine \/ RcUpTf \/ RcUpGen

\* ------------------------------------------------------------ startup
\* GridState::new: let mut state_lock = state.lock().unwrap(); (held to the
\* end of the function)
NewLockScene ==
    /\ mainPc = "new"
    /\ Free("ss")
    /\ held' = [held EXCEPT !["main"] = Append(@, "ss")]
    /\ mainPc' = "new_ss"
    /\ UNCHANGED <<timeVars, probeVars, bufVars, scene, queue, timers,
                   watcherPc, rc, poisoned, auxVars>>

\* GridState::new: let mut lock = ret.lock().unwrap(); lock.send_back = Some(tx);
NewLockGrid ==
    /\ mainPc = "new_ss"
    /\ Free("gs")
    /\ held' = [held EXCEPT !["main"] = Append(@, "gs")]
    /\ mainPc' = "new_both"
    /\ UNCHANGED <<timeVars, probeVars, bufVars, scene, queue, timers,
                   watcherPc, rc, poisoned, auxVars>>

\* GridState::new returns: both guards drop
NewReturn ==
    /\ mainPc = "new_both"
    /\ held' = [held EXCEPT !["main"] = <<>>]
    /\ mainPc' = "post_setup"
    /\ UNCHANGED <<timeVars, probeVars, bufVars, scene, queue, timers,
                   watcherPc, rc, poisoned, auxVars>>

\* GridState::post_setup: registers the methods under the scene lock
PostSetup ==
    /\ mainPc = "post_setup"
    /\ Free("ss")
    /\ mainPc' = "init"
    /\ UNCHANGED <<timeVars, probeVars, bufVars, scene, queue, timers,
                   watcherPc, rc, held, poisoned, auxVars>>

\* main: let mut lock = app_state.lock().unwrap();
InitLockGrid ==
    /\ mainPc = "init"
    /\ Free("gs")
    /\ held' = [held EXCEPT !["main"] = Append(@, "gs")]
    /\ mainPc' = "init_gs"
    /\ UNCHANGED <<timeVars, probeVars, bufVars, scene, queue, timers,
                   watcherPc, rc, poisoned, auxVars>>

\* main: recompute_all(&mut lock, &mut state.lock().unwrap()); and the end
\* of the block
InitRecompute ==
    /\ mainPc = "init_gs"
    /\ Free("ss")
    /\ RecomputeAll(time_step)
    /\ held' = [held EXCEPT !["main"] = <<>>]
    /\ mainPc' = "serving"
    /\ UNCHANGED <<timeVars, probeVars, queue, timers, watcherPc, rc, poisoned, auxVars>>

\* the same, up to the call of recompute_all
InitLockScene ==
    /\ mainPc = "init_gs"
    /\ Free("ss")
    /\ held' = [held EXCEPT !["main"] = Append(@, "ss")]
    /\ mainPc' = "init_rc"
    /\ StartRecompute("main")
    /\ UNCHANGED <<timeVars, probeVars, bufVars, scene, queue, timers,
                   watcherPc, poisoned, auxVars>>

Construct == NewLockScene \/ NewLockGrid \/ NewReturn \/ PostSetup \/ InitLockGrid
Startup == Construct \/ InitRecompute

\* ---------------------------------------------------- method handlers
\* A handler runs once the server serves clients, with both locks taken.
CanHandle ==
    /\ mainPc = "serving"
    /\ ~poisoned
    /\ Free("gs")
    /\ Free("ss")

TakeBoth == held' = [held EXCEPT !["handler"] = <<"gs", "ss">>]

\* set_time
SetTime(a) ==
    /\ CanHandle
    /\ time_step' = SetTimeValue(a)
    /\ RecomputeAll(time_step')
    /\ UNCHANGED <<time_step_direction, active_timer, advAfterStop, replayed, probeVars,
                   queue, timers, watcherPc, mainPc, rc, held, poisoned,
                   auxVars>>

\* set_time, up to the call of recompute_all
SetTimeBegin(a) ==
    /\ CanHandle
    /\ time_step' = SetTimeValue(a)
    /\ TakeBoth
    /\ StartRecompute("handler")
    /\ UNCHANGED <<time_step_direction, active_timer, advAfterStop, replayed, probeVars,
                   bufVars, scene, queue, timers, watcherPc, mainPc, poisoned,
                   auxVars>>

\* step_time, when the sum stays in range or the build wraps
StepTime(a) ==
    /\ CanHandle
    /\ time_step' = StepTimeValue(time_step, FromCborI32(a))
    /\ RecomputeAll(time_step')
    /\ UNCHANGED <<time_step_direction, active_timer, advAfterStop, replayed, probeVars,
                   queue, timers, watcherPc, mainPc, rc, held, poisoned,
                   auxVars>>

\* step_time, when the sum overflows and the build checks overflow: the
\* handler panics holding the guard, which poisons the GridState mutex
StepTimePanic(a) ==
    /\ CanHandle
    /\ StepOverflows(time_step, FromCborI32(a))
    /\ poisoned' = TRUE
    /\ UNCHANGED <<timeVars, probeVars, bufVars, scene, queue, timers,
                   watcherPc, mainPc, rc, held, auxVars>>

\* step_time, up to the call of recompute_all
StepTimeBegin(a) ==
    /\ CanHandle
    /\ time_step' = StepTimeValue(time_step, FromCborI32(a))
    /\ TakeBoth
    /\ StartRecompute("handler")
    /\ UNCHANGED <<time_step_direction, active_timer, advAfterStop, replayed, probeVars,
                   bufVars, scene, queue, timers, watcherPc, mainPc, poisoned,
                   auxVars>>

\* toggle_line_load: app.show_line_load = !app.show_line_load;
FlipLineLoad == show_line_load' = ~show_line_load

\* the flag flipped and the handler returning without recompute_all
ToggleLineLoadNoRecompute ==
    /\ CanHandle
    /\ FlipLineLoad
    /\ UNCHANGED <<timeVars, probeVars, bufVars, scene, queue, timers,
                   watcherPc, mainPc, rc, held, poisoned, ignored, system,
                   dropped, pureVars>>

\* toggle_line_load, up to the call of recompute_all
ToggleLineLoadBegin ==
    /\ CanHandle
    /\ FlipLineLoad
    /\ TakeBoth
    /\ StartRecompute("handler")
    /\ UNCHANGED <<timeVars, probeVars, bufVars, scene, queue, timers,
                   watcherPc, mainPc, poisoned, ignored, system, dropped,
                   pureVars>>

\* ------------------------------------------------------ timer tasks
FreeTimer == [pc |-> "free", stop |-> "open", late |-> 0]
Alive(t) == timers[t].pc # "free"
FreeSlots == {t \in Timers : ~Alive(t)}
LeastFree == CHOOSE t \in FreeSlots : \A u \in FreeSlots : t <= u

\* check_launch_timer (the variant starts a timer whenever one is asked for)
CheckLaunchTimerStack(d) ==
    /\ time_step_direction' = d
    /\ IF d # 0
       THEN /\ FreeSlots # {}
            /\ active_timer' = LeastFree
            /\ timers' = [timers EXCEPT ![LeastFree] =
                              [pc |-> "poll", stop |-> "open", late |-> 0]]
            /\ advAfterStop' = -1
            /\ replayed' = (active_timer # 0)
       ELSE /\ active_timer' = 0
            /\ timers' = IF active_timer # 0 /\ Alive(active_timer)
                            THEN [timers EXCEPT ![active_timer].stop = "sent"]
                            ELSE timers
            /\ advAfterStop' = IF active_timer # 0 THEN 0 ELSE advAfterStop
            /\ replayed' = FALSE

\* check_launch_timer, for a stop that forgets the task without cancelling
\* it: the handle is cleared and nothing is sent
CheckLaunchTimerNoCancel(d) ==
    /\ time_step_direction' = d
    /\ IF active_timer # 0
       THEN IF d # 0
            THEN /\ replayed' = TRUE
                 /\ UNCHANGED <<active_timer, timers, advAfterStop>>
            ELSE /\ active_timer' = 0
                 /\ advAfterStop' = 0
                 /\ replayed' = FALSE
                 /\ UNCHANGED timers
       ELSE IF d # 0
            THEN /\ FreeSlots # {}
                 /\ active_timer' = LeastFree
                 /\ timers' = [timers EXCEPT ![LeastFree] =
                                   [pc |-> "poll", stop |-> "open", late |-> 0]]
                 /\ advAfterStop' = -1
                 /\ replayed' = FALSE
            ELSE UNCHANGED <<active_timer, timers, advAfterStop, replayed>>

CheckLaunchTimer(d) ==
    /\ time_step_direction' = d
    /\ IF active_timer # 0
       THEN IF d # 0
            THEN \* already have timer going. skip
                 /\ replayed' = TRUE
                 /\ UNCHANGED <<active_timer, timers, advAfterStop>>
            ELSE \* timer going and we want to stop. issue stop.
                 /\ active_timer' = 0
                 /\ timers' = IF Alive(active_timer)
                                 THEN [timers EXCEPT ![active_timer].stop = "sent"]
                                 ELSE timers
                 /\ advAfterStop' = 0
                 /\ replayed' = FALSE
       ELSE IF d # 0
            THEN \* timer is not running and they want one. start
                 /\ FreeSlots # {}
                 /\ active_timer' = LeastFree
                 /\ timers' = [timers EXCEPT ![LeastFree] =
                                   [pc |-> "poll", stop |-> "open", late |-> 0]]
                 /\ advAfterStop' = -1
                 /\ replayed' = FALSE
            ELSE \* timer not running and they want a stop. skip
                 UNCHANGED <<active_timer, timers, advAfterStop, replayed>>

\* play_time, for a handler that stores the decoded integer as it is
PlayDirectionAsSent(a) == FromCborI32(a)
\* play_time: from_cbor(time).unwrap_or_default(), then time.clamp(-1, 1)
PlayDirection(a) == Clamp(FromCborI32(a), -1, 1)

\* play_time, once the direction is decoded: check_launch_timer(app, time)
Play(d) ==
    /\ CanHandle
    /\ CheckLaunchTimer(d)
    /\ UNCHANGED <<time_step, probeVars, bufVars, scene, queue, watcherPc,
                   mainPc, rc, held, poisoned, auxVars>>

\* play_time
PlayTime(a) == Play(PlayDirection(a))

\* advance_timer, top of the loop: select! polls a sleep that has just been
\* created (never ready) and to_stop (ready once the stop was sent); the
\* variant does not look at to_stop there
PollNoStop(t) == [timers[t] EXCEPT !.pc = "sleep"]
PollStopFirst(t) ==
    IF timers[t].stop = "sent" THEN FreeTimer ELSE [timers[t] EXCEPT !.pc = "sleep"]

TimerPoll(t) ==
    /\ timers[t].pc = "poll"
    /\ timers' = [timers EXCEPT ![t] = PollStopFirst(t)]
    /\ UNCHANGED <<timeVars, probeVars, bufVars, scene, queue, watcherPc,
                   mainPc, rc, held, poisoned, auxVars>>

\* advance_timer: the sleep branch of select! completes
TimerSleepDone(t) ==
    /\ timers[t].pc = "sleep"
    /\ timers' = [timers EXCEPT ![t].pc = "send"]
    /\ UNCHANGED <<timeVars, probeVars, bufVars, scene, queue, watcherPc,
                   mainPc, rc, held, poisoned, auxVars>>

\* advance_timer: the to_stop branch of select! completes
TimerStopped(t) ==
    /\ timers[t].pc = "sleep"
    /\ timers[t].stop = "sent"
    /\ timers' = [timers EXCEPT ![t] = FreeTimer]
    /\ UNCHANGED <<timeVars, probeVars, bufVars, scene, queue, watcherPc,
                   mainPc, rc, held, poisoned, auxVars>>

\* advance_timer: send_back.send(true).await, which waits for room in the
\* channel and fails once the watcher has dropped the receiver
TimerSend(t) ==
    /\ timers[t].pc = "send"
    /\ IF watcherPc = "dead"
       THEN /\ timers' = [timers EXCEPT ![t] = FreeTimer]
            /\ queue' = queue
       ELSE /\ queue < QueueCap
            /\ queue' = queue + 1
            /\ timers' = [timers EXCEPT ![t].pc = "poll",
                                         ![t].late = IF timers[t].stop = "sent"
                                                     THEN Min(@ + 1, 2) ELSE @]
    /\ UNCHANGED <<timeVars, probeVars, bufVars, scene, watcherPc,
                   mainPc, rc, held, poisoned, auxVars>>

TimerStep == \E t \in Timers :
    TimerPoll(t) \/ TimerSleepDone(t) \/ TimerStopped(t) \/ TimerSend(t)

\* ---------------------------------------------------- advance_watcher
\* while rx.recv().await.is_some()
WatcherRecv ==
    /\ watcherPc = "recv"
    /\ queue > 0
    /\ queue' = queue - 1
    /\ watcherPc' = "lock_gs"
    /\ UNCHANGED <<timeVars, probeVars, bufVars, scene, timers, mainPc, rc,
                   held, poisoned, auxVars>>

\* let mut lock = gs.lock().unwrap(); and the new time_step
WatcherLockGrid ==
    /\ watcherPc = "lock_gs"
    /\ Free("gs")
    /\ IF poisoned
       THEN /\ watcherPc' = "dead"
            /\ UNCHANGED <<time_step, advAfterStop, held>>
       ELSE /\ held' = [held EXCEPT !["watcher"] = Append(@, "gs")]
            /\ time_step' = AdvanceTime(time_step, time_step_direction)
            /\ advAfterStop' = IF advAfterStop >= 0
                                 THEN Min(advAfterStop + 1, 2) ELSE advAfterStop
            /\ watcherPc' = "lock_ss"
    /\ UNCHANGED <<time_step_direction, active_timer, replayed, probeVars,
                   bufVars, scene, queue, timers, mainPc, rc, poisoned,
                   auxVars>>

\* let mut ss_lock = ss_arc.lock().unwrap(); recompute_all; the guards drop
\* at the end of the loop body
WatcherRecompute ==
    /\ watcherPc = "lock_ss"
    /\ Free("ss")
    /\ RecomputeAll(time_step)
    /\ held' = [held EXCEPT !["watcher"] = <<>>]
    /\ watcherPc' = "recv"
    /\ UNCHANGED <<timeVars, probeVars, queue, timers, mainPc, rc, poisoned, auxVars>>

\* the same, up to the call of recompute_all
WatcherLockScene ==
    /\ watcherPc = "lock_ss"
    /\ Free("ss")
    /\ held' = [held EXCEPT !["watcher"] = Append(@, "ss")]
    /\ watcherPc' = "recompute"
    /\ StartRecompute("watcher")
    /\ UNCHANGED <<timeVars, probeVars, bufVars, scene, queue, timers,
                   mainPc, poisoned, auxVars>>

Watcher == WatcherRecv \/ WatcherLockGrid \/ WatcherRecompute

\* ------------------------------------------------------------- probes
\* Positions are in half units (v stands for v/2) on every axis.
Vec3(x, y, z) == <<x, y, z>>
Positions == {Vec3(-2, 1, -2), Vec3(1, 0, 2)}

\* Option<Vec3> and Option<EntityReference> of a chart (named by the line it
\* was rendered for)
NoPos == [some |-> FALSE, p |-> Vec3(0, 0, 0)]
SomePos(q) == [some |-> TRUE, p |-> q]
NoChart == [some |-> FALSE, line |-> 0]
SomeChart(l) == [some |-> TRUE, line |-> l]

\* Entities of the scene a client can invoke a method on
Ent(k, id) == [k |-> k, id |-> id]
DefaultEntity == Ent("default", 0)

\* Probe::new; moves and res count the moves accepted and the resolutions
\* done for the probe since the last pass that left it with nothing pending,
\* and none_found tells whether the last of these resolutions found no line
ProbeNew(id) ==
    [entity |-> id, world_pos |-> Vec3(0, 0, 0), dirty |-> NoPos,
     handle |-> FALSE, chart |-> NoChart, line_i |-> UsizeMax,
     moves |-> 0, res |-> 0, none_found |-> FALSE]

ProbeIds == {probes[i].entity : i \in 1..Len(probes)}

\* The line locations of a system at each timestep, in data coordinates;
\* data bounds are [0, 4] on both axes. Three datasets are examined:
\* "uniform" has the same number of lines at every timestep, "gap" has no
\* line at the timestep the server starts at, and "flat" has only lines of
\* zero length at timestep 0.
Seg(sx, sy, ex, ey) == [sx |-> sx, sy |-> sy, ex |-> ex, ey |-> ey]
Datasets == {"uniform", "gap", "flat"}
LinesOf(sys, ts) ==
    IF sys = "gap" /\ ts = InitialTimeStep THEN <<>>
    ELSE IF sys = "flat" /\ ts = 0
    THEN <<Seg(0, 0, 0, 0), Seg(2, 2, 2, 2), Seg(4, 4, 4, 4)>>
    ELSE IF ts % 2 = 0
    THEN <<Seg(0, 0, 4, 0), Seg(2, 2, 2, 2), Seg(0, 4, 4, 4)>>
    ELSE <<Seg(0, 4, 4, 4), Seg(0, 0, 0, 4), Seg(0, 0, 4, 0)>>
\* gs.system.lines[ts]
SystemLines(ts) == LinesOf(system, ts)

\* Domain::lerp_x / lerp_y over the bounds [0, 4], in half units: x goes to
\* -1 + x * (2 / 4), y to 1 + y * (-2 / 4)
LerpX(v) == v - 2
LerpY(v) == 2 - v

Dot(u, v) == u[1] * v[1] + u[2] * v[2]
Sub(u, v) == <<u[1] - v[1], u[2] - v[2]>>

\* Probe::get_closest_line, one segment: the squared distance from p as a
\* fraction [n, d]; d = 0 stands for NaN (a zero-length segment gives
\* t = 0/0, and the distance to c is NaN)
SegDistance(p, l) ==
    LET a == <<LerpX(l.sx), LerpY(l.sy)>>
        b == <<LerpX(l.ex), LerpY(l.ey)>>
        ap == Sub(p, a)
        ab == Sub(b, a)
        tn == Dot(ap, ab)
        td == Dot(ab, ab)
    IN  IF td = 0 THEN [n |-> 0, d |-> 0]
        ELSE IF tn < 0 THEN [n |-> Dot(ap, ap), d |-> 1]
        ELSE IF tn > td THEN [n |-> Dot(Sub(p, b), Sub(p, b)), d |-> 1]
        ELSE [n |-> Dot(ap, ap) * td - tn * tn, d |-> td]

\* Probe::get_closest_line, one segment: c = a + t * ab as the fractions
\* x / d and y / d, whatever t is; d = 0 stands for NaN
SegProjection(p, l) ==
    LET a == <<LerpX(l.sx), LerpY(l.sy)>>
        b == <<LerpX(l.ex), LerpY(l.ey)>>
        ab == Sub(b, a)
        tn == Dot(Sub(p, a), ab)
        td == Dot(ab, ab)
    IN  [x |-> a[1] * td + tn * ab[1], y |-> a[2] * td + tn * ab[2], d |-> td]

\* the comparison for a resolver that lets a later segment win a tie
CloserOrEqual(dist, best) ==
    /\ dist.d # 0
    /\ best.inf \/ dist.n * best.dist.d <= best.dist.n * dist.d
\* this_distance < min_distance; best.d = 0 with best.inf is f32::INFINITY
Closer(dist, best) ==
    /\ dist.d # 0
    /\ best.inf \/ dist.n * best.dist.d < best.dist.n * dist.d

\* Probe::get_closest_line: the loop over the lines from l_i on
RECURSIVE ClosestFrom(_, _, _, _)
ClosestFrom(p, lines, l_i, best) ==
    IF l_i > Len(lines) THEN best
    ELSE LET dist == SegDistance(p, lines[l_i])
         IN  ClosestFrom(p, lines, l_i + 1,
                 IF Closer(dist, best)
                 THEN [inf |-> FALSE, dist |-> dist, index |-> l_i - 1,
                       closest_point |-> SegProjection(p, lines[l_i])]
                 ELSE best)

\* Probe::get_closest_line: Some((index, closest_point)), or None when the
\* index is still usize::MAX after the loop
ClosestLineAndPoint(world_pos, lines) ==
    LET best == ClosestFrom(<<world_pos[1], world_pos[3]>>, lines, 1,
                    [inf |-> TRUE, dist |-> [n |-> 0, d |-> 0], index |-> UsizeMax,
                     closest_point |-> [x |-> 0, y |-> 0, d |-> 1]])
    IN  [some |-> best.index # UsizeMax, index |-> best.index,
         closest_point |-> best.closest_point]

\* Probe::get_closest_line: the index found, usize::MAX for None
GetClosestLine(world_pos, lines) == ClosestLineAndPoint(world_pos, lines).index

\* Probe::update, for a probe that is detached when no line is found
ProbeUpdateDetach(pr, ts) ==
    [pr EXCEPT !.world_pos = pr.dirty.p,
               !.dirty = NoPos,
               !.res = @ + 1,
               !.none_found = GetClosestLine(pr.dirty.p, SystemLines(ts)) = UsizeMax,
               !.line_i = GetClosestLine(pr.dirty.p, SystemLines(ts))]
\* Probe::update; a None from get_closest_line returns before line_i is
\* assigned
ProbeUpdate(pr, ts) ==
    LET closest == GetClosestLine(pr.dirty.p, SystemLines(ts))
    IN  [pr EXCEPT !.world_pos = pr.dirty.p,
                   !.dirty = NoPos,
                   !.res = @ + 1,
                   !.none_found = (closest = UsizeMax),
                   !.line_i = IF closest = UsizeMax THEN @ ELSE closest]

\* Probe::install_chart (with install_handle and install_delete_buttion)
InstallChart(pr, image) ==
    [pr EXCEPT !.handle = TRUE, !.chart = SomeChart(image)]

\* check_click, for a probe that takes any delete button for its own
CheckClickAnyButton(pr, ent) == pr.chart.some /\ ent.k = "delete"
\* Probe::check_click; a probe without a chart compares the clicked id with
\* EntityID::default(), the null id, which no entity of the scene carries
CheckClick(pr, ent) ==
    ent = (IF pr.chart.some THEN Ent("delete", pr.entity) ELSE DefaultEntity)

\* ------------------------------------------------- probe method handlers
\* make_probe: the oldest probe is recycled once the limit is reached (the
\* variant recycles only above the limit)
RecycleAbove(ps) == IF Len(ps) > ProbeCap THEN Tail(ps) ELSE ps
Recycle(ps) == IF Len(ps) >= ProbeCap THEN Tail(ps) ELSE ps

\* gs.probe_move_request_signal.send(true).unwrap(): the send fails once the
\* probe service has ended and dropped the receiver, and the handler then
\* panics holding the guard, which poisons the GridState mutex
SendProbeSignal ==
    IF pipePc = "dead"
    THEN /\ poisoned' = TRUE
         /\ probe_signal' = probe_signal
    ELSE /\ poisoned' = poisoned
         /\ probe_signal' = probe_signal + 1

\* make_probe; create_probe passes no context, item_activate the context
\* of the call
MakeProbe(hasContext, limit) ==
    /\ CanHandle
    /\ IF hasContext
       THEN UNCHANGED <<probes, probe_signal, nCreated, poisoned>>
       ELSE /\ nCreated < limit
            /\ probes' = Append(Recycle(probes), ProbeNew(nCreated + 1))
            /\ nCreated' = nCreated + 1
            /\ SendProbeSignal
    /\ UNCHANGED <<timeVars, bufVars, scene, queue, timers, watcherPc, pipePc,
                   image_to_generate, mainPc, rc, held, nMoves, auxVars>>

\* on_move, for a probe that keeps its pending position once it has one
MoveKeepsFirst(pr, position) ==
    [pr EXCEPT !.dirty = IF @.some THEN @ ELSE SomePos(Vec3(position[1], 0, position[3])),
               !.moves = @ + 1]
\* on_move, for a probe that lets go of its line as soon as it is moved
MoveDetaches(pr, position) ==
    [pr EXCEPT !.dirty = SomePos(Vec3(position[1], 0, position[3])),
               !.moves = @ + 1,
               !.line_i = UsizeMax]
\* on_move, for the probe that was moved: new_p.y = 0.0; item.dirty = Some(new_p)
MoveProbe(pr, position) ==
    [pr EXCEPT !.dirty = SomePos(Vec3(position[1], 0, position[3])),
               !.moves = @ + 1]

\* The contexts a client can call set_position and activate with: none, an
\* entity that no longer resolves, a probe, a chart's delete button, or
\* another entity of the scene
MoveContexts ==
    {Ent("none", 0), Ent("stale", 0), Ent("other", 0)}
        \cup {Ent("probe", id) : id \in ProbeIds}

\* The entity a handler acts on, for a call whose context falls back to the
\* default entity when it is missing or does not resolve
ResolveOrDefault(ctx) ==
    [some |-> TRUE,
     e |-> IF ctx.k \in {"none", "stale"} THEN DefaultEntity ELSE ctx]
\* let Some(InvokeIDType::Entity(ctx)) = context else { return };
\* let Some(ctx) = state.entities.resolve(ctx) else { return };
Resolve(ctx) ==
    [some |-> ctx.k \notin {"none", "stale"}, e |-> ctx]

\* set_position / on_move
SetPosition(ctx, position, limit) ==
    /\ CanHandle
    /\ ignored' = (ignored \/ ~Resolve(ctx).some)
    /\ IF Resolve(ctx).some /\ Resolve(ctx).e.k = "probe"
          /\ Resolve(ctx).e.id \in ProbeIds
       THEN /\ nMoves < limit
            /\ SendProbeSignal
            /\ probes' = IF poisoned'
                          THEN probes      \* the panic comes before item.dirty is set
                          ELSE [i \in 1..Len(probes) |->
                                   IF probes[i].entity = ctx.id
                                   THEN MoveProbe(probes[i], position) ELSE probes[i]]
            /\ nMoves' = nMoves + 1
       ELSE UNCHANGED <<probes, probe_signal, nMoves, poisoned>>
    /\ UNCHANGED <<timeVars, bufVars, scene, queue, timers, watcherPc, pipePc,
                   image_to_generate, mainPc, rc, held, nCreated,
                   system, show_line_load, dropped, pureVars>>

ClickContexts ==
    {Ent("none", 0), Ent("stale", 0), Ent("other", 0)}
        \cup {Ent("probe", id) : id \in ProbeIds}
        \cup {Ent("delete", probes[i].entity) : i \in {j \in 1..Len(probes) : probes[j].chart.some}}

\* activate / on_click
Activate(ctx) ==
    /\ CanHandle
    /\ ignored' = (ignored \/ ~Resolve(ctx).some)
    /\ IF ~Resolve(ctx).some
       THEN UNCHANGED probes
       ELSE LET keep(pr) == ~CheckClick(pr, Resolve(ctx).e)
            IN  probes' = SelectSeq(probes, keep)  \* retain_mut
    /\ UNCHANGED <<timeVars, bufVars, scene, queue, timers, watcherPc,
                   probe_signal, pipePc, image_to_generate, mainPc, rc, held,
                   poisoned, nCreated, nMoves, system, show_line_load,
                   dropped, pureVars>>

\* ------------------------------------- probe_service and update_probes
NoImages == [id \in {} |-> [line |-> 0, image |-> 0]]

\* probe_service: while check.recv().await.is_some()
PipeRecv ==
    /\ pipePc = "recv"
    /\ probe_signal > 0
    /\ probe_signal' = probe_signal - 1
    /\ pipePc' = "stage1"
    /\ UNCHANGED <<timeVars, bufVars, probes, scene, queue, timers, watcherPc,
                   image_to_generate, mainPc, rc, held, poisoned, nCreated, nMoves,
                   auxVars>>

\* update_probes, end of the first block: the GridState guard drops (the
\* variant keeps it through stage 2)
Stage1KeepsLock == held' = [held EXCEPT !["pipe"] = <<"gs">>]
Stage1Unlock == held' = [held EXCEPT !["pipe"] = <<>>]

\* update_probes, stage 1: under the GridState lock, every dirty probe is
\* updated and gets an entry (line_i, vec![]) in image_to_generate
Stage1 ==
    /\ pipePc = "stage1"
    /\ Free("gs")
    /\ IF poisoned
       THEN /\ pipePc' = "dead"
            /\ UNCHANGED <<probes, image_to_generate, held>>
       ELSE LET updated == [i \in 1..Len(probes) |->
                               IF probes[i].dirty.some
                               THEN ProbeUpdate(probes[i], time_step) ELSE probes[i]]
                dirtyIx == {i \in 1..Len(probes) : probes[i].dirty.some}
            IN  /\ probes' = updated
                /\ image_to_generate' =
                       [id \in {probes[i].entity : i \in dirtyIx} |->
                           LET i == CHOOSE j \in dirtyIx : probes[j].entity = id
                           IN  [line |-> updated[i].line_i, image |-> -1]]
                /\ Stage1Unlock
                /\ pipePc' = "stage2"
    /\ UNCHANGED <<timeVars, bufVars, scene, queue, timers, watcherPc,
                   probe_signal, mainPc, rc, poisoned, nCreated, nMoves,
                   auxVars>>

\* generate_chart_for indexes every timestep's lines with line_i
ChartPanics(line_i) ==
    \E ts \in 0..(MaxTime - 1) : line_i >= Len(SystemLines(ts))

\* stage 2 for a pipeline that renders nothing: the entry keeps vec![]
RenderNothing(item) == item
\* item.1 = generate_chart_for(item.0, &power_system)
RenderChart(item) == [item EXCEPT !.image = item.line]

\* update_probes, stage 2: a chart is rendered for every entry, with no lock
\* held; the image is named by the line it charts
Stage2 ==
    /\ pipePc = "stage2"
    /\ IF \E id \in DOMAIN image_to_generate : ChartPanics(image_to_generate[id].line)
       THEN /\ pipePc' = "dead"
            /\ image_to_generate' = NoImages
            /\ held' = [held EXCEPT !["pipe"] = <<>>]
       ELSE /\ pipePc' = "stage3"
            /\ image_to_generate' =
                   [id \in DOMAIN image_to_generate |->
                       RenderChart(image_to_generate[id])]
            /\ held' = held
    /\ UNCHANGED <<timeVars, bufVars, probes, scene, queue, timers, watcherPc,
                   probe_signal, mainPc, rc, poisoned, nCreated, nMoves,
                   auxVars>>

\* update_probes, stage 3: let mut gs = gs.lock().unwrap();
Stage3LockGrid ==
    /\ pipePc = "stage3"
    /\ Free("gs")
    /\ IF poisoned
       THEN /\ pipePc' = "dead"
            /\ image_to_generate' = NoImages
            /\ held' = held
       ELSE /\ pipePc' = "stage3_ss"
            /\ image_to_generate' = image_to_generate
            /\ held' = [held EXCEPT !["pipe"] = Append(@, "gs")]
    /\ UNCHANGED <<timeVars, bufVars, probes, scene, queue, timers, watcherPc,
                   probe_signal, mainPc, rc, poisoned, nCreated, nMoves,
                   auxVars>>

NothingDropped == [installed |-> {}, discarded |-> {}]

\* stage 3 for a pipeline that installs a chart on every probe it finds, an
\* empty one when the pass rendered none for it
Stage3ChartAll(pr, images) ==
    InstallChart(pr, IF pr.entity \in DOMAIN images
                     THEN images[pr.entity].image ELSE -1)
\* let Some((_, content)) = image_to_generate.remove(&item.entity.id())
\* else { continue }; item.install_chart(&mut gs, &mut state, content);
Stage3Chart(pr, images) ==
    IF pr.entity \in DOMAIN images
    THEN InstallChart(pr, images[pr.entity].image)
    ELSE pr

\* update_probes, stage 3: let mut state = state_ptr.lock().unwrap(); the
\* charts are installed on the probes that still exist, and the guards drop
Stage3Install ==
    /\ pipePc = "stage3_ss"
    /\ Free("ss")
    /\ probes' = [i \in 1..Len(probes) |->
                     LET pr == Stage3Chart(probes[i], image_to_generate)
                     IN  IF pr.dirty.some THEN pr
                         ELSE [pr EXCEPT !.moves = 0, !.res = 0,
                                         !.none_found = FALSE]]
    /\ image_to_generate' = NoImages      \* the map goes out of scope
    /\ dropped' = IF DOMAIN image_to_generate \subseteq ProbeIds
                   THEN dropped
                   ELSE [installed |-> DOMAIN image_to_generate \cap ProbeIds,
                         discarded |-> DOMAIN image_to_generate \ ProbeIds]
    /\ held' = [held EXCEPT !["pipe"] = <<>>]
    /\ pipePc' = "recv"
    /\ UNCHANGED <<timeVars, bufVars, scene, queue, timers, watcherPc,
                   probe_signal, mainPc, rc, poisoned, nCreated, nMoves,
                   ignored, system, show_line_load, pureVars>>

Pipeline == PipeRecv \/ Stage1 \/ Stage2 \/ Stage3LockGrid \/ Stage3Install

\* ------------------------------------------------------ specification
InitState ==
    /\ time_step = InitialTimeStep
    /\ time_step_direction = 0
    /\ active_timer = 0
    /\ line_buffer = <<>>
    /\ transformer_buffer = <<>>
    /\ gen_buffer = <<>>
    /\ probes = <<>>
    /\ scene = EmptyScene
    /\ queue = 0
    /\ timers = [t \in Timers |-> FreeTimer]
    /\ watcherPc = "recv"
    /\ probe_signal = 0
    /\ pipePc = "recv"
    /\ image_to_generate = NoImages
    /\ mainPc = "new"
    /\ rc = [owner |-> "none", pc |-> "idle"]
    /\ show_line_load = FALSE
    /\ dropped = NothingDropped
    /\ held = [p \in Procs |-> <<>>]
    /\ poisoned = FALSE
    /\ nCreated = 0
    /\ nMoves = 0
    /\ advAfterStop = -1
    /\ replayed = FALSE
    /\ ignored = FALSE

\* No function is under examination
NoOutput == [done |-> FALSE, v |-> <<>>]
NoCall == input = <<>> /\ output = NoOutput

\* The server with the dataset whose every timestep has the same lines
Init == InitState /\ system = "uniform" /\ NoCall

TimeHandlers ==
    \/ \E a \in F32Args : SetTime(a)
    \/ \E a \in I32Args : StepTime(a)
    \/ \E a \in I32Args : StepTimePanic(a)
    \/ \E a \in I32Args : PlayTime(a)

NextPlayback == Startup \/ TimeHandlers \/ TimerStep \/ Watcher

SpecPlayback == Init /\ [][NextPlayback]_vars

\* Starting and stopping playback under fair scheduling, with the time index
\* moved by the timers only and room for SmallQueue advance signals in the
\* channel: the runtime keeps polling every spawned task that can make
\* progress (tokio::spawn), a send that waits for room in the bounded channel
\* is served in turn once there is room, and the advance watcher keeps
\* running.
NextStop ==
    /\ \/ Startup
       \/ \E a \in I32Args : PlayTime(a)
       \/ \E a \in I32Args : StepTimePanic(a)
       \/ TimerStep
       \/ Watcher
    /\ queue' <= SmallQueue

FairPlayback ==
    /\ Init /\ [][NextStop]_vars
    /\ \A t \in Timers :
          /\ WF_vars(TimerPoll(t) \/ TimerSleepDone(t) \/ TimerStopped(t))
          /\ SF_vars(TimerSend(t) /\ queue' <= SmallQueue)
    /\ WF_vars(Watcher)

\* The recompute observed step by step; explored with one timer task and up
\* to RcQueueMax queued advance signals.
NextRecompute ==
    /\ \/ Construct
       \/ InitLockScene
       \/ \E a \in F32Args : SetTimeBegin(a)
       \/ \E a \in I32Args : PlayTime(a)
       \/ TimerStep
       \/ WatcherRecv
       \/ WatcherLockGrid
       \/ WatcherLockScene
       \/ RecomputeSteps
    /\ queue' <= RcQueueMax
    /\ \A t \in Timers : t > 1 => timers'[t].pc = "free"

SpecRecompute == Init /\ [][NextRecompute]_vars

\* Every operation that recomputes, with recompute_all taken step by step:
\* the time handlers, the display-mode toggle and the playback.
NextModes ==
    /\ \/ Construct
       \/ InitLockScene
       \/ \E a \in F32Args : SetTimeBegin(a)
       \/ \E a \in I32Args : StepTimeBegin(a)
       \/ \E a \in I32Args : StepTimePanic(a)
       \/ ToggleLineLoadBegin
       \/ \E a \in I32Args : PlayTime(a)
       \/ TimerStep
       \/ WatcherRecv
       \/ WatcherLockGrid
       \/ WatcherLockScene
       \/ RecomputeSteps
    /\ queue' <= RcQueueMax
    /\ \A t \in Timers : t > 1 => timers'[t].pc = "free"

SpecModes == Init /\ [][NextModes]_vars

\* The probe collection and its pipeline, with the server already serving:
\* up to MaxCreate probes created and MaxMoves probe moves.
ProbeHandlers(creates, moves) ==
    \/ \E c \in BOOLEAN : MakeProbe(c, creates)
    \/ \E ctx \in MoveContexts, position \in Positions : SetPosition(ctx, position, moves)
    \/ \E ctx \in ClickContexts : Activate(ctx)

NextProbes == Startup \/ ProbeHandlers(MaxCreate, MaxMoves) \/ Pipeline

SpecProbes == Init /\ [][NextProbes]_vars

\* The pipeline under repeated moves: up to FewCreate probes and FewMoves
\* probe moves.
NextMoves == Startup \/ ProbeHandlers(FewCreate, FewMoves) \/ Pipeline

SpecMoves == Init /\ [][NextMoves]_vars

\* The pipeline while the collection changes under it: up to GoneCreate
\* probes created (one more than the collection holds) and GoneMoves probe
\* moves, every call with a context that resolves.
NextGone ==
    /\ \/ Startup
       \/ ProbeHandlers(GoneCreate, GoneMoves)
       \/ Pipeline
    /\ ~ignored'

SpecGone == Init /\ [][NextGone]_vars

\* The pipeline over each of the datasets, with the time index set by the
\* client: up to DsCreate probes and DsMoves probe moves, every call with a
\* context that resolves.
InitDatasets == InitState /\ system \in Datasets /\ NoCall

NextDatasets ==
    /\ \/ Startup
       \/ \E a \in F32Args : SetTime(a)
       \/ ProbeHandlers(DsCreate, DsMoves)
       \/ Pipeline
    /\ ~ignored'

SpecDatasets == InitDatasets /\ [][NextDatasets]_vars

\* The same under fair scheduling of the probe service: the runtime keeps
\* polling the spawned probe_service task, so a wake-up that is in the channel
\* is received and the pass that follows runs through its stages (the locks
\* it waits for are released by every handler).
FairDatasets == SpecDatasets /\ WF_vars(Pipeline)

\* Playback, probes and pipeline together: up to SmallOps probe creations
\* and moves, every call with a context that resolves, one timer task and up
\* to SmallQueue queued advance signals.
Next ==
    /\ \/ Startup
       \/ \E a \in I32Args : PlayTime(a)
       \/ TimerStep
       \/ Watcher
       \/ ProbeHandlers(SmallOps, SmallOps)
       \/ Pipeline
    /\ nCreated' + nMoves' <= SmallOps
    /\ ~ignored'
    /\ queue' <= SmallQueue
    /\ \A t \in Timers : t > 1 => timers'[t].pc = "free"

Spec == Init /\ [][Next]_vars

\* The pipeline while the time index moves under it: SetTime and playback
\* with up to LineCreate probes and LineMoves probe moves, every call with a
\* context that resolves, one timer task and up to SmallQueue queued advance
\* signals.
NextChartLine ==
    /\ \/ Startup
       \/ \E a \in F32Args : SetTime(a)
       \/ \E a \in I32Args : PlayTime(a)
       \/ TimerStep
       \/ Watcher
       \/ ProbeHandlers(LineCreate, LineMoves)
       \/ Pipeline
    /\ ~ignored'
    /\ queue' <= SmallQueue
    /\ \A t \in Timers : t > 1 => timers'[t].pc = "free"

SpecChartLine == Init /\ [][NextChartLine]_vars

\* ===================================================== instance builders
\* Heights are in eighths of a world unit (voltage_to_height maps 0.9 .. 1.1
\* to 0 .. 1.5, that is 0 .. 12 eighths); x and z are in units of the hazard
\* grid's cell size (snap = 2.0 / 20.0).
P3(x, y, z) == [x |-> x, y |-> y, z |-> z]
Line3(a, b) == [a |-> a, b |-> b]

\* d.voltage_to_height(0.95) and d.voltage_to_height(1.05)
VMinHeight == 3
VMaxHeight == 9

\* f32::round of the fraction n / d (d # 0): half-way cases away from zero
Round(n, d) ==
    LET nn == IF d < 0 THEN -n ELSE n
        dd == IF d < 0 THEN -d ELSE d
        up(m) == (m \div dd) + (IF m % dd >= dd - (m % dd) THEN 1 ELSE 0)
    IN  IF nn >= 0 THEN up(nn) ELSE -up(-nn)

\* line_plane_intersection followed by glm::round(point / snap): the cell
\* of the crossing, or none when the segment is level or fac is not in [0, 1)
NoCell == [some |-> FALSE, x |-> 0, z |-> 0]
CrossingCell(a, b, plane_h) ==
    LET uy == b.y - a.y          \* dot = plane_normal . (b - a)
        fn == plane_h - a.y      \* fac = fn / uy
        inRange == IF uy > 0 THEN 0 <= fn /\ fn < uy
                             ELSE 0 >= fn /\ fn > uy
    IN  IF uy = 0 \/ ~inRange THEN NoCell
        ELSE [some |-> TRUE,
              x |-> Round(a.x * uy + (b.x - a.x) * fn, uy),
              z |-> Round(a.z * uy + (b.z - a.z) * fn, uy)]

\* map_intersect.insert, for a detector that keeps one band for both planes
HazardInsertMerged(map, x, z, level) == map \cup {<<x, z, 0>>}
\* self.map_intersect.insert((point.x, point.z, level))
HazardInsert(map, x, z, level) == map \cup {<<x, z, level>>}

\* HazardCheck::check, for a checker whose planes are at v_min_height and
\* v_max_height
HazardCheckPlanes(map, l, v_min_height, v_max_height) ==
    LET lo == CrossingCell(l.a, l.b, v_min_height)
        hi == CrossingCell(l.a, l.b, v_max_height)
        m1 == IF lo.some THEN HazardInsert(map, lo.x, lo.z, 0) ELSE map
    IN  IF hi.some THEN HazardInsert(m1, hi.x, hi.z, 1) ELSE m1

\* HazardCheck::check, with the planes at 3 and 9 (heights in eighths of a
\* world unit)
HazardCheckOne(map, l) == HazardCheckPlanes(map, l, VMinHeight, VMaxHeight)

\* the checker.check calls of recompute_lines, one per line
RECURSIVE HazardCheckAll(_, _)
HazardCheckAll(map, lines) ==
    IF lines = <<>> THEN map
    ELSE HazardCheckAll(HazardCheckOne(map, Head(lines)), Tail(lines))

\* HazardCheck::create_matrices: one record per element of the set, placed at
\* (x * snap, mix(v_min_height, v_max_height, level), z * snap); the set is
\* iterated in an arbitrary order
RECURSIVE CreateMatricesPlanes(_, _, _)
CreateMatricesPlanes(map, v_min_height, v_max_height) ==
    IF map = {} THEN <<>>
    ELSE LET k == CHOOSE e \in map : TRUE
         IN  <<P3(k[1], v_min_height * (1 - k[3]) + v_max_height * k[3], k[2])>>
                 \o CreateMatricesPlanes(map \ {k}, v_min_height, v_max_height)

CreateMatrices(map) == CreateMatricesPlanes(map, VMinHeight, VMaxHeight)

\* recompute_lines with line_load = false: the hazard boxes for the lines
HazardParts(lines) == CreateMatrices(HazardCheckAll({}, lines))

\* The conductor segments examined, as world-space endpoints
HazardSegs ==
    {Line3(P3(0, 0, 0), P3(0, 12, 0)),      \* both planes, cell (0, 0)
     Line3(P3(0, 12, 0), P3(0, 0, 0)),      \* the same, downwards
     Line3(P3(0, 0, 0), P3(1, 12, 0)),      \* lower in (0, 0), upper in (1, 0)
     Line3(P3(4, 0, 0), P3(4, 6, 0)),       \* lower plane only, cell (4, 0)
     Line3(P3(0, 6, 0), P3(0, 6, 2)),       \* level, between the planes
     Line3(P3(0, 3, 0), P3(0, 9, 0)),       \* starts on the lower plane, ends on the upper
     Line3(P3(-1, 0, -1), P3(-2, 12, -1))}  \* negative cells

RECURSIVE SeqsUpTo(_, _)
SeqsUpTo(S, n) ==
    IF n = 0 THEN {<<>>}
    ELSE LET shorter == SeqsUpTo(S, n - 1)
         IN  shorter \cup {Append(q, e) : q \in shorter, e \in S}

InitHazard ==
    /\ InitState /\ system = "uniform"
    /\ input \in SeqsUpTo(HazardSegs, MaxLines)
    /\ output = NoOutput

RunHazard ==
    /\ ~output.done
    /\ output' = [done |-> TRUE, v |-> HazardParts(input)]
    /\ UNCHANGED <<progVars, input>>

SpecHazard == InitHazard /\ [][RunHazard]_vars

\* ---- state_to_line and the line builders
\* Voltages and line loads are in units of 1e-7, heights in units of 1e-9
\* world units.
HeightEps == 1000            \* 0.000001
HeightMax == 1500000000      \* volt_height_max = 1.5
VoltMin == 9000000           \* volt_min = 0.9
VoltMax == 11000000          \* volt_max = 1.1
LoadMax == 20000000          \* clamped_lerp(0.0, 2.0, ..)
RecordBytes == 64            \* [f32; 16]

Abs(x) == IF x < 0 THEN -x ELSE x

\* Domain::voltage_to_height: v.abs().clamped_lerp(volt_min, volt_max,
\* volt_height_min, volt_height_max); the slope is 1.5 / 0.2 (750 height
\* units for a voltage unit), clamped to [0, 1.5]
VoltageToHeight(v) ==
    IF Abs(v) <= VoltMin THEN 0
    ELSE IF Abs(v) >= VoltMax THEN HeightMax
    ELSE (Abs(v) - VoltMin) * 750

\* Domain::line_load_to_height: the slope is 1.5 / 2.0
LineLoadToHeight(v) ==
    IF Abs(v) >= LoadMax THEN HeightMax ELSE Abs(v) * 75

LineGetterResult(vs, ve, ll) == [volt_start |-> vs, volt_end |-> ve, line_load |-> ll]

\* state_to_line: the heights of p_a and p_b
EndHeights(st, offset_y, use_line_load) ==
    IF use_line_load
    THEN <<LineLoadToHeight(st.line_load) + offset_y,
           LineLoadToHeight(st.line_load) + offset_y>>
    ELSE <<VoltageToHeight(st.volt_start) + offset_y,
           VoltageToHeight(st.volt_end) + offset_y>>

\* the skip test, for a builder that drops a line only when both of its
\* endpoints are low
SkipBoth(h) == h[1] < HeightEps /\ h[2] < HeightEps
\* if p_a.y < 0.000001 || p_b.y < 0.000001 { return None; }
SkipEither(h) == h[1] < HeightEps \/ h[2] < HeightEps

\* state_to_line: None, or the matrix of the line (named by the line's
\* position in src)
StateToLine(st, i, offset_y, use_line_load) ==
    IF SkipEither(EndHeights(st, offset_y, use_line_load))
    THEN [some |-> FALSE, src |-> i, bytes |-> 0]
    ELSE [some |-> TRUE, src |-> i, bytes |-> RecordBytes]

\* recompute_lines / recompute_line_flows: dest.extend_from_slice for every
\* line whose matrix is Some
RECURSIVE BuildLines(_, _, _, _, _)
BuildLines(src, i, offset_y, use_line_load, dest) ==
    IF i > Len(src) THEN dest
    ELSE LET m == StateToLine(src[i], i, offset_y, use_line_load)
         IN  BuildLines(src, i + 1, offset_y, use_line_load,
                        IF m.some THEN Append(dest, m) ELSE dest)

\* The line states examined: dead, just below and just above the epsilon at
\* one end, nominal, and a negative voltage
LineStates ==
    {LineGetterResult(0, 0, 0),
     LineGetterResult(9000001, 10000000, 13),
     LineGetterResult(10000000, 9000001, 14),
     LineGetterResult(9000002, 9000002, 13),
     LineGetterResult(-10000000, 10500000, 10000000),
     LineGetterResult(12000000, 8000000, 30000000)}
Offsets == {-500, 0, 2000}

InitLines ==
    /\ InitState /\ system = "uniform"
    /\ input \in [builder : {"recompute_lines", "recompute_line_flows"},
                  use_line_load : BOOLEAN,
                  offset_y : Offsets,
                  src : SeqsUpTo(LineStates, MaxLines)]
    /\ output = NoOutput

RunLines ==
    /\ ~output.done
    /\ output' = [done |-> TRUE,
                  v |-> BuildLines(input.src, 1, input.offset_y,
                                   input.use_line_load, <<>>)]
    /\ UNCHANGED <<progVars, input>>

SpecLines == InitLines /\ [][RunLines]_vars

\* ---- recompute_lines as a whole: the hazard checker and the matrices
\* HazardCheck::new: v_min_height and v_max_height, in height units
PlaneLow == VoltageToHeight(9500000)       \* d.voltage_to_height(0.95)
PlaneHigh == VoltageToHeight(10500000)     \* d.voltage_to_height(1.05)

\* the callback of state_to_line, for a builder that checks only the lines
\* it keeps
CheckKeptOnly(map, st, offset_y, use_line_load) ==
    LET h == EndHeights(st, offset_y, use_line_load)
    IN  IF SkipEither(h) THEN map
        ELSE HazardCheckPlanes(map, Line3(P3(0, h[1], 0), P3(0, h[2], 0)),
                               PlaneLow, PlaneHigh)
\* state_to_line: callback(&result, p_a, p_b), which recompute_lines binds to
\* checker.check(a, b); it runs before the skip test.  The lines examined
\* stand at the origin of the ground plane.
CheckEvery(map, st, offset_y, use_line_load) ==
    LET h == EndHeights(st, offset_y, use_line_load)
    IN  HazardCheckPlanes(map, Line3(P3(0, h[1], 0), P3(0, h[2], 0)),
                          PlaneLow, PlaneHigh)

\* recompute_lines: the loop over src
RECURSIVE LinesLoop(_, _, _, _, _)
LinesLoop(src, i, offset_y, line_load, acc) ==
    IF i > Len(src) THEN acc
    ELSE LET checked == CheckEvery(acc.map, src[i], offset_y, line_load)
             m == StateToLine(src[i], i, offset_y, line_load)
         IN  LinesLoop(src, i + 1, offset_y, line_load,
                       [map |-> checked,
                        dest |-> IF m.some THEN Append(acc.dest, m) ELSE acc.dest])

\* recompute_lines: what it appends to dest and to hazard_parts
RecomputeLines(src, offset_y, line_load) ==
    LET done == LinesLoop(src, 1, offset_y, line_load, [map |-> {}, dest |-> <<>>])
    IN  [dest |-> done.dest,
         hazard_parts |-> IF ~line_load
                          THEN CreateMatricesPlanes(done.map, PlaneLow, PlaneHigh)
                          ELSE <<>>]

InitLinesHazard ==
    /\ InitState /\ system = "uniform"
    /\ input \in [line_load : BOOLEAN,
                  offset_y : Offsets,
                  src : SeqsUpTo(LineStates, MaxLines)]
    /\ output = NoOutput

RunLinesHazard ==
    /\ ~output.done
    /\ output' = [done |-> TRUE,
                  v |-> RecomputeLines(input.src, input.offset_y, input.line_load)]
    /\ UNCHANGED <<progVars, input>>

SpecLinesHazard == InitLinesHazard /\ [][RunLinesHazard]_vars

\* ---- Probe::get_closest_line on its own
\* The segments examined, in data coordinates: the two horizontal edges, the
\* left edge, a diagonal and a segment of zero length
ResolverSegs ==
    {Seg(0, 0, 4, 0), Seg(0, 4, 4, 4), Seg(0, 0, 0, 4), Seg(1, 1, 3, 3),
     Seg(2, 2, 2, 2)}
\* The probe positions examined, in the units of LerpX and LerpY
ResolverPoints == {Vec3(x, 0, z) : x \in {-3, 0, 1, 3}, z \in {-3, 0, 2}}

InitResolver ==
    /\ InitState /\ system = "uniform"
    /\ input \in [world_pos : ResolverPoints,
                  lines : SeqsUpTo(ResolverSegs, MaxLines)]
    /\ output = NoOutput

RunResolver ==
    /\ ~output.done
    /\ output' = [done |-> TRUE,
                  v |-> ClosestLineAndPoint(input.world_pos, input.lines)]
    /\ UNCHANGED <<progVars, input>>

SpecResolver == InitResolver /\ [][RunResolver]_vars

\* ---- the builders over conductors with a location
\* A conductor is a LineState: its location in data coordinates and what the
\* getter reads from it.
Conductor(loc, st) == [loc |-> loc, st |-> st]

\* p_b - p_a, for the builders that lift the endpoints (state_to_line and
\* recompute_buses) and for recompute_gound_lines, which keeps them at 0.0
DirectionOf(c, builder, use_line_load) ==
    LET h == IF builder = "recompute_gound_lines" THEN <<0, 0>>
             ELSE EndHeights(c.st, 0, use_line_load)
    IN  <<LerpX(c.loc.ex) - LerpX(c.loc.sx), h[2] - h[1],
          LerpY(c.loc.ey) - LerpY(c.loc.sy)>>

\* roll_free_rotation(v.normalize()): normalizing the zero vector divides by
\* zero and gives NaN components, and so does the basis for a direction along
\* world up; neither is an error
RollFreeRotation(v) ==
    IF v = <<0, 0, 0>> \/ (v[1] = 0 /\ v[3] = 0) THEN "nan" ELSE "unit"

\* One conductor through a builder: the records appended for it
RecordsFor(c, i, builder, use_line_load) ==
    LET rec == [src |-> i, bytes |-> RecordBytes,
                rot |-> RollFreeRotation(DirectionOf(c, builder, use_line_load))]
    IN  IF builder \in {"recompute_lines", "recompute_line_flows"}
        THEN IF StateToLine(c.st, i, 0, use_line_load).some THEN <<rec>> ELSE <<>>
        ELSE <<rec>>     \* recompute_buses, recompute_gound_lines: no test

RECURSIVE BuildRecords(_, _, _, _)
BuildRecords(src, i, builder, use_line_load) ==
    IF i > Len(src) THEN <<>>
    ELSE RecordsFor(src[i], i, builder, use_line_load)
             \o BuildRecords(src, i + 1, builder, use_line_load)

\* The conductors examined: an ordinary one, one whose endpoints coincide
\* (same place, same voltage), one that stands upright (same place, different
\* voltages), a dead one whose endpoints coincide, and a dead ordinary one
Conductors ==
    {Conductor(Seg(0, 0, 4, 0), LineGetterResult(10000000, 10200000, 10000000)),
     Conductor(Seg(2, 2, 2, 2), LineGetterResult(10000000, 10000000, 10000000)),
     Conductor(Seg(2, 2, 2, 2), LineGetterResult(10000000, 10500000, 10000000)),
     Conductor(Seg(1, 3, 1, 3), LineGetterResult(0, 0, 0)),
     Conductor(Seg(0, 4, 4, 4), LineGetterResult(0, 0, 0))}
Builders ==
    {"recompute_lines", "recompute_line_flows", "recompute_buses",
     "recompute_gound_lines"}

InitBuilders ==
    /\ InitState /\ system = "uniform"
    /\ input \in [builder : Builders, use_line_load : BOOLEAN,
                  src : SeqsUpTo(Conductors, MaxLines)]
    /\ output = NoOutput

RunBuilders ==
    /\ ~output.done
    /\ output' = [done |-> TRUE,
                  v |-> BuildRecords(input.src, 1, input.builder, input.use_line_load)]
    /\ UNCHANGED <<progVars, input>>

SpecBuilders == InitBuilders /\ [][RunBuilders]_vars

\* ---- Domain::voltage_safety
\* Voltages are in thousandths; NaN compares false with everything.
LowLimit == 950              \* 0.95
HighLimit == 1050            \* 1.05

\* voltage_safety with the limits themselves outside the safe band
VoltageSafetyStrictBand(v) ==
    IF v.k = "num" /\ v.v <= LowLimit THEN "Low"
    ELSE IF v.k = "num" /\ v.v >= HighLimit THEN "High"
    ELSE "Safe"
\* Domain::voltage_safety
VoltageSafety(v) ==
    IF v.k = "num" /\ v.v < LowLimit THEN "Low"
    ELSE IF v.k = "num" /\ v.v > HighLimit THEN "High"
    ELSE "Safe"

Voltages ==
    {Arg("nan", 0), Arg("num", -1000), Arg("num", 0)}
        \cup {Arg("num", 900 + i) : i \in 0..VoltSteps}

InitSafety ==
    /\ InitState /\ system = "uniform"
    /\ input \in Voltages
    /\ output = NoOutput

RunSafety ==
    /\ ~output.done
    /\ output' = [done |-> TRUE, v |-> VoltageSafety(input)]
    /\ UNCHANGED <<progVars, input>>

SpecSafety == InitSafety /\ [][RunSafety]_vars

\* ============================================================ properties
\* ---- playback (SpecPlayback)

\* C1: after any sequence of SetTime, StepTime, PlayTime and timer-driven
\* Advance events the time index satisfies 0 <= time_step < max_time_step,
\* also when SetTime receives a negative, too large or undecodable value.
C1_TimeIndexInRange == time_step \in 0..(MaxTime - 1)

\* C1, the case: no timer was ever started, and a handler has moved the time
\* index from its initial value to the last timestep and recomputed for it.
C1_AtLastStep ==
    /\ active_timer = 0
    /\ advAfterStop = -1
    /\ InitialTimeStep # MaxTime - 1
    /\ time_step = MaxTime - 1
    /\ scene = SceneFor(MaxTime - 1)

\* C2: each Advance sets the time index to (time_step + direction) wrapped
\* into [0, max_time_step): max-1 goes to 0 forwards, 0 goes to max-1
\* backwards.
C2_AdvanceWraps ==
    [][(watcherPc = "lock_gs" /\ watcherPc' = "lock_ss")
          => time_step' = (time_step + time_step_direction) % MaxTime]_vars

\* C2, the case: the watcher has just advanced backwards from 0 to the last
\* timestep (it still holds the GridState lock, so the direction is the one
\* it used).
C2_WrappedBackwards ==
    /\ watcherPc = "lock_ss"
    /\ time_step_direction = -1
    /\ time_step = MaxTime - 1
    /\ MaxTime > 1

\* A timer task that can still put an advance signal in the channel: it is
\* alive, and it is not about to see its stop request at the top of the loop.
CanEmit(t) ==
    \/ timers[t].pc \in {"sleep", "send"}
    \/ timers[t].pc = "poll" /\ timers[t].stop = "open"

\* C3: over any interleaving of PlayTime calls and timer task steps at most
\* one timer task is alive and able to emit advance signals.
C3_OneTimerAlive == Cardinality({t \in Timers : CanEmit(t)}) <= 1

\* C4 as stated: PlayTime with a nonzero direction (-1 or 1 once clamped)
\* while a timer is running spawns no timer and leaves the timer handle and
\* the playback direction unchanged.
C4_StartWhileRunningIsNoOp ==
    [][active_timer # 0 =>
          \A d \in {-1, 1} :
              Play(d) => UNCHANGED <<active_timer, timers, time_step_direction>>]_vars

\* C4 as the code has it: PlayTime with a nonzero direction while a timer is
\* running spawns no timer and leaves the timer handle unchanged, and the
\* playback direction becomes the requested direction.
C4_StartWhileRunningKeepsTimer ==
    [][active_timer # 0 =>
          \A d \in {-1, 1} :
              Play(d) => /\ UNCHANGED <<active_timer, timers>>
                         /\ time_step_direction' = d]_vars

\* C4, the case: a timer is running and a nonzero PlayTime has arrived since
\* it was started.
C4_StartedTwice == active_timer # 0 /\ replayed /\ Alive(active_timer)

\* C5 as stated: once a stop was requested with a timer running, the watcher
\* processes at most one more Advance.
C5_OneAdvanceAfterStop == advAfterStop <= 1

\* C5 as the code has it: once a stop was requested, the stopped timer task
\* sends at most one more advance signal (the watcher still processes the
\* signals that were queued before).
C5_OneSendAfterStop == \A t \in Timers : timers[t].late <= 1

\* C5, the case: a stopped timer task has sent one signal after its stop
\* request and is back at the top of its loop.
C5_SentAfterStop == \E t \in Timers : timers[t].late = 1 /\ timers[t].stop = "sent"

\* C8: every operation that holds both locks took the GridState lock first
\* and the scene lock second.
C8_GridThenScene == \A p \in Procs : Len(held[p]) = 2 => held[p] = <<"gs", "ss">>

\* ---- recompute (SpecRecompute)
WholeScenes == {EmptyScene} \cup {SceneFor(ts) : ts \in 0..(MaxTime - 1)}

\* C10: a recompute clears and completely rebuilds every buffer before any
\* upload and runs under both locks: whoever can take the scene lock finds
\* the buffers of one timestep, never a partial buffer or a mix.
C10_SceneNeverTorn ==
    /\ Free("ss") => scene \in WholeScenes
    /\ rc.owner # "none" => Range(held[rc.owner]) = {"gs", "ss"}
    /\ rc.pc \in {"up_line", "up_tf", "up_gen"} =>
          /\ line_buffer = LineBlocks(time_step)
          /\ transformer_buffer = TfBlocks(time_step)
          /\ gen_buffer = GenBlocks(time_step)

\* C10, the case: in the middle of the uploads the scene holds the new line
\* buffer next to the transformer buffer of another timestep, under the lock.
C10_MidUpload ==
    /\ rc.pc = "up_tf"
    /\ scene.line = LineBlocks(time_step)
    /\ scene.tf # <<>>
    /\ scene.tf # TfBlocks(time_step)

\* ---- probe moves (SpecMoves)

\* C6 as stated: when two SetPosition requests for a probe are issued before
\* a pipeline pass completes, exactly one resolution is performed for it.
C6_OneResolutionForTwoMoves ==
    \A i \in 1..Len(probes) : probes[i].moves = 2 => probes[i].res <= 1

\* C6 as the code has it: a move overwrites the pending position (the probe
\* has one pending slot, nothing is queued), and each stage 1 resolves every
\* pending probe exactly once, from the position pending at that moment; so
\* two moves with no stage 1 between them give one resolution from the
\* second position, and two moves with a stage 1 between them give two.
C6_LatestPendingMoveWins ==
    [][/\ nMoves' # nMoves =>
             \A ctx \in MoveContexts, position \in Positions :
                 SetPosition(ctx, position, FewMoves) =>
                     \A i \in 1..Len(probes) :
                         probes[i].entity = ctx.id =>
                             /\ probes'[i].dirty = SomePos(Vec3(position[1], 0, position[3]))
                             /\ probes'[i].res = probes[i].res
       /\ (pipePc = "stage1" /\ pipePc' = "stage2") =>
             \A i \in 1..Len(probes) :
                 IF probes[i].dirty.some
                 THEN /\ probes'[i].world_pos = probes[i].dirty.p
                      /\ probes'[i].dirty = NoPos
                      /\ probes'[i].res = probes[i].res + 1
                      /\ probes[i].entity \in DOMAIN image_to_generate'
                 ELSE /\ probes'[i] = probes[i]
                      /\ probes[i].entity \notin DOMAIN image_to_generate'
      ]_vars

\* C6, the case: a probe was moved twice and stage 1 has then resolved it
\* once; nothing is pending for it.
C6_TwoMovesOneResolution ==
    \E i \in 1..Len(probes) :
        /\ probes[i].moves = 2
        /\ probes[i].res = 1
        /\ ~probes[i].dirty.some
        /\ pipePc = "stage2"

\* ---- pipeline and playback together (Spec)

\* C7: in every pass, stage 2 (chart rendering) runs while the pipeline
\* holds neither the GridState lock nor the scene lock.
C7_Stage2HoldsNoLock == pipePc = "stage2" => held["pipe"] = <<>>

\* C7, the case: the pipeline is in stage 2 with a chart to render, and the
\* advance watcher has taken the GridState lock meanwhile.
C7_WatcherInStage2 ==
    /\ pipePc = "stage2"
    /\ DOMAIN image_to_generate # {}
    /\ watcherPc = "lock_ss"
    /\ held["watcher"] = <<"gs">>

\* ---- probe collection (SpecProbes)

C11_ContextlessCallIgnored ==
    [][\A ctx \in {Ent("none", 0), Ent("stale", 0)} :
          (Activate(ctx) \/ \E position \in Positions :
                               SetPosition(ctx, position, FewMoves))
              => UNCHANGED <<probes, time_step, probe_signal>>]_vars

\* C11, the case: such a call was handled and the collection holds a probe
\* with a chart and a probe with a pending move.
C11_IgnoredWithProbes ==
    /\ ignored
    /\ \E i \in 1..Len(probes) : probes[i].chart.some
    /\ \E i \in 1..Len(probes) : probes[i].dirty.some

\* ---- the pipeline over datasets with missing or degenerate lines
\* ---- (SpecDatasets)

\* C12: when the current timestep has no lines, processing a pending move
\* leaves the probe without an attached line and the pipeline pass completes
\* without failure.
C12_EmptyTimestepPassCompletes ==
    \A i \in 1..Len(probes) :
        (SystemLines(time_step) = <<>> /\ probes[i].none_found) =>
            /\ probes[i].line_i = UsizeMax
            /\ pipePc # "dead"

\* ---- the hazard detector (SpecHazard)

\* The cells in which some line of the list crosses the plane of a level
CrossedCells(lines, level) ==
    {<<c.x, c.z>> : c \in {CrossingCell(lines[i].a, lines[i].b,
                                        IF level = 0 THEN VMinHeight ELSE VMaxHeight) :
                              i \in 1..Len(lines)} \ {NoCell}}
BoxesAt(boxes, cell, level) ==
    {i \in 1..Len(boxes) :
        boxes[i] = P3(cell[1], IF level = 0 THEN VMinHeight ELSE VMaxHeight, cell[2])}

\* C13: the hazard detector emits exactly one box per distinct (cellX, cellZ,
\* planeLevel): one box for a plane and a cell however many lines cross there,
\* a box for each crossed cell, separate boxes for a lower-plane and an
\* upper-plane crossing in the same cell, and no other box.
C13_OneBoxPerCellAndPlane ==
    output.done =>
        /\ \A level \in {0, 1} : \A cell \in CrossedCells(input, level) :
               Cardinality(BoxesAt(output.v, cell, level)) = 1
        /\ Len(output.v) = Cardinality(CrossedCells(input, 0))
                              + Cardinality(CrossedCells(input, 1))

\* C13, the case: two lines cross the lower plane in the same cell, one of
\* them crosses the upper plane in that cell too, and the other crosses it in
\* a different cell.
C13_SharedCellBothPlanes ==
    /\ output.done
    /\ Len(input) = 2
    /\ \E cell \in CrossedCells(input, 0) \cap CrossedCells(input, 1) :
           /\ cell \in CrossedCells(<<input[1]>>, 0)
           /\ cell \in CrossedCells(<<input[2]>>, 0)
    /\ Cardinality(CrossedCells(input, 1)) = 2

\* ---- the line builders (SpecLines)

\* The records appended for line i of the source
RecordsOf(dest, i) == {k \in 1..Len(dest) : dest[k].src = i}
RECURSIVE TotalBytes(_)
TotalBytes(dest) ==
    IF dest = <<>> THEN 0 ELSE Head(dest).bytes + TotalBytes(Tail(dest))

\* C14: for the line and line-flow builders, a line with either endpoint
\* height below 1e-6 appends nothing to the output buffer and every other
\* line appends exactly one 64-byte record.
C14_SkipRule ==
    output.done =>
        /\ \A i \in 1..Len(input.src) :
              LET h == EndHeights(input.src[i], input.offset_y, input.use_line_load)
              IN  Cardinality(RecordsOf(output.v, i)) =
                      IF h[1] < HeightEps \/ h[2] < HeightEps THEN 0 ELSE 1
        /\ TotalBytes(output.v) = 64 * Len(output.v)

\* C14, the case: the builder has run over two lines, one with exactly one
\* endpoint below the epsilon and one with both endpoints above it.
C14_OneLowEndpoint ==
    /\ output.done
    /\ Len(input.src) = 2
    /\ \E i, j \in 1..2 :
          LET hi == EndHeights(input.src[i], input.offset_y, input.use_line_load)
              hj == EndHeights(input.src[j], input.offset_y, input.use_line_load)
          IN  /\ (hi[1] < HeightEps) # (hi[2] < HeightEps)
              /\ hj[1] >= HeightEps /\ hj[2] >= HeightEps

\* ---- the nearest-line resolver (SpecResolver)

\* The squared distance from p to the segment l, as the fraction n / d
PointToSegment(p, l) ==
    LET a == <<LerpX(l.sx), LerpY(l.sy)>>
        b == <<LerpX(l.ex), LerpY(l.ey)>>
        ap == Sub(p, a)
        ab == Sub(b, a)
        tn == Dot(ap, ab)
        td == Dot(ab, ab)
    IN  IF td = 0 \/ tn < 0 THEN [n |-> Dot(ap, ap), d |-> 1]
        ELSE IF tn > td THEN [n |-> Dot(Sub(p, b), Sub(p, b)), d |-> 1]
        ELSE [n |-> Dot(ap, ap) * td - tn * tn, d |-> td]

\* The point c, given as fractions over c.d, lies on the segment l and is at
\* the distance of the segment from p
ClosestOnSegment(c, p, l) ==
    LET a == <<LerpX(l.sx), LerpY(l.sy)>>
        b == <<LerpX(l.ex), LerpY(l.ey)>>
        ab == Sub(b, a)
        ac == <<c.x - a[1] * c.d, c.y - a[2] * c.d>>   \* (c - a) * c.d
        pc == <<c.x - p[1] * c.d, c.y - p[2] * c.d>>   \* (c - p) * c.d
        dist == PointToSegment(p, l)
    IN  /\ c.d > 0
        /\ ac[1] * ab[2] = ac[2] * ab[1]
        /\ 0 <= Dot(ac, ab) /\ Dot(ac, ab) <= Dot(ab, ab) * c.d
        /\ Dot(pc, pc) * dist.d = dist.n * c.d * c.d

\* C15: for a non-empty line list the resolver returns the index of a segment
\* whose distance from the probe is the minimum over the list, together with
\* the closest point on that segment (the projection when 0 <= t <= 1, the
\* nearer endpoint otherwise), so the point returned lies on the segment.
C15_NearestSegmentAndPointOnIt ==
    (output.done /\ input.lines # <<>>) =>
        LET p == <<input.world_pos[1], input.world_pos[3]>>
        IN  /\ output.v.some
            /\ \A k \in 1..Len(input.lines) :
                  LET mine == PointToSegment(p, input.lines[output.v.index + 1])
                      other == PointToSegment(p, input.lines[k])
                  IN  mine.n * other.d <= other.n * mine.d
            /\ ClosestOnSegment(output.v.closest_point, p,
                                input.lines[output.v.index + 1])

\* ---- voltage safety (SpecSafety)

\* C16: voltage_safety(v) is Low exactly when v < 0.95, High exactly when
\* v > 1.05 and Safe otherwise; the limits themselves are Safe.
C16_SafetyBands ==
    (output.done /\ input.k = "num") =>
        /\ (output.v = "Low") <=> (input.v < 950)
        /\ (output.v = "High") <=> (input.v > 1050)
        /\ (output.v = "Safe") <=> (950 <= input.v /\ input.v <= 1050)

\* C16, the case: the voltage 0.95, the lower limit itself, was classified,
\* as Safe.
C16_LimitIsSafe ==
    /\ output.done
    /\ input = Arg("num", 950)
    /\ output.v = "Safe"

ProbeOf(ps, id) == ps[CHOOSE i \in 1..Len(ps) : ps[i].entity = id]
EntitiesOf(ps) == {ps[i].entity : i \in 1..Len(ps)}

\* C18: within one pass a chart is installed for a probe (stage 3) only
\* after that probe's move was resolved in stage 1 and its chart rendered in
\* stage 2 of the same pass: stage 3 begins with every requested chart
\* rendered, it installs for each probe that stage 1 of the pass processed
\* the chart rendered for the line recorded then, it installs nothing for any
\* other probe, and no other step changes a probe's chart.
C18_InstallAfterResolveAndRender ==
    /\ [](pipePc \in {"stage3", "stage3_ss"} =>
              \A id \in DOMAIN image_to_generate :
                  /\ image_to_generate[id].image # -1
                  /\ image_to_generate[id].image = image_to_generate[id].line)
    /\ [][\A id \in EntitiesOf(probes) \cap EntitiesOf(probes') :
              IF pipePc = "stage3_ss" /\ pipePc' = "recv"
                    /\ id \in DOMAIN image_to_generate
              THEN /\ ProbeOf(probes', id).chart = SomeChart(image_to_generate[id].image)
                   /\ ProbeOf(probes', id).handle
              ELSE /\ ProbeOf(probes', id).chart = ProbeOf(probes, id).chart
                   /\ ProbeOf(probes', id).handle = ProbeOf(probes, id).handle
        ]_vars

\* C18, the case: a pass has installed the chart of one probe, and another
\* probe, whose move arrived after stage 1 of that pass, has no chart and
\* still has its move pending.
C18_InstalledForProcessedOnly ==
    /\ pipePc = "recv"
    /\ \E i, j \in 1..Len(probes) :
          /\ probes[i].chart.some /\ ~probes[i].dirty.some
          /\ ~probes[j].chart.some /\ probes[j].dirty.some

\* ---- stopping playback (FairPlayback)

\* C19: PlayTime(0) with a timer running clears the timer handle and sends
\* that timer's one-shot cancel; under fair scheduling the timer task then
\* terminates, and once it sees the cancel at the top of its loop it ends
\* without emitting an advance signal. PlayTime(0) with no timer running
\* changes nothing but the direction.
C19_StopCancelsAndTimerEnds ==
    /\ [][Play(0) =>
             IF active_timer # 0
             THEN /\ active_timer' = 0
                  /\ Alive(active_timer) => timers'[active_timer].stop = "sent"
                  /\ \A t \in Timers \ {active_timer} : timers'[t] = timers[t]
             ELSE /\ time_step_direction' = 0
                  /\ UNCHANGED <<time_step, active_timer, timers, queue>>]_vars
    /\ [][\A t \in Timers :
             (timers[t].pc = "poll" /\ timers[t].stop = "sent"
                  /\ timers'[t] # timers[t])
                 => (timers'[t] = FreeTimer /\ queue' = queue)]_vars
    /\ \A t \in Timers : (timers[t].stop = "sent") ~> (timers[t].pc = "free")

\* C19, the case: playback was stopped while a timer was running, the timer
\* task has ended, and the watcher is still serving.
C19_StoppedAndEnded ==
    /\ advAfterStop >= 0
    /\ active_timer = 0
    /\ time_step_direction = 0
    /\ \A t \in Timers : timers[t].pc = "free"
    /\ watcherPc # "dead" /\ ~poisoned

\* ---- stepping the time index (SpecPlayback)

\* clamp(ts + d, 0, MaxTime - 1) over the integers, for 0 <= ts < MaxTime
ClampedSum(ts, d) ==
    IF d >= (MaxTime - 1) - ts THEN MaxTime - 1
    ELSE IF d <= -ts THEN 0
    ELSE ts + d

\* C20: StepTime(delta) sets the time index to clamp(timeIndex + delta, 0,
\* max - 1) for every i32 delta, also when the sum leaves the i32 range: a
\* very large positive delta gives max - 1 and a very large negative one 0.
C20_StepClampsForEveryDelta ==
    [][\A a \in I32Args :
          (StepTime(a) \/ StepTimePanic(a)) =>
              time_step' = ClampedSum(time_step, FromCborI32(a))]_vars

\* ---- degenerate conductors (SpecBuilders)

\* C21: a conductor whose two world-space endpoints coincide (a zero-length
\* direction vector) is omitted by the line, line-flow, bus and ground-line
\* builders: no record is appended for it.
C21_ZeroLengthOmitted ==
    output.done =>
        \A i \in 1..Len(input.src) :
            DirectionOf(input.src[i], input.builder, input.use_line_load) = <<0, 0, 0>>
                => RecordsOf(output.v, i) = {}

\* ---- ties in the nearest-line resolver (SpecResolver)

\* The indices of the segments the resolver can measure (a segment of zero
\* length gives a NaN distance) whose distance from p is the least of these
NearestMeasured(p, lines) ==
    LET measured == {k \in 1..Len(lines) : SegDistance(p, lines[k]).d # 0}
    IN  {k \in measured :
            \A j \in measured :
                SegDistance(p, lines[k]).n * SegDistance(p, lines[j]).d
                    <= SegDistance(p, lines[j]).n * SegDistance(p, lines[k]).d}

\* The indices of the segments whose distance from p is the least of the list
Nearest(p, lines) ==
    {k \in 1..Len(lines) :
        \A j \in 1..Len(lines) :
            PointToSegment(p, lines[k]).n * PointToSegment(p, lines[j]).d
                <= PointToSegment(p, lines[j]).n * PointToSegment(p, lines[k]).d}

C23_DeleteRemovesExactlyThatProbe ==
    [][\A ctx \in ClickContexts :
          Activate(ctx) =>
              IF ctx.k = "delete"
              THEN LET others(pr) == pr.entity # ctx.id
                   IN  /\ probes' = SelectSeq(probes, others)
                       /\ Len(probes') = Len(probes) - 1
              ELSE probes' = probes]_vars

\* C23, the case: of two probes the first was deleted by a click on its
\* delete affordance; the second remains, with its chart.
C23_FirstProbeDeleted ==
    /\ nCreated = 2
    /\ Len(probes) = 1
    /\ probes[1].entity = 2
    /\ probes[1].chart.some

\* ---- the timer handle and the direction (SpecPlayback)

\* C24: after any sequence of PlayTime calls the timer handle is present
\* exactly when the stored playback direction is nonzero, and the stored
\* direction is -1, 0 or +1 whatever integer the client sends.
C24_HandleIffDirection ==
    /\ (active_timer # 0) <=> (time_step_direction # 0)
    /\ time_step_direction \in {-1, 0, 1}

\* C24, the case: while a timer was running a PlayTime with another nonzero
\* integer arrived; the handle is still present and the direction is -1.
C24_ReversedWhileRunning ==
    /\ replayed
    /\ active_timer # 0
    /\ time_step_direction = -1


\* C25: when the watcher consumes an advance signal while the direction is 0
\* (PlayTime(0) was processed and no nonzero PlayTime since), taking the grid
\* lock leaves time_step unchanged, and the watcher still goes on to lock the
\* scene and start recompute_all.
C25_StoppedAdvanceKeepsTime ==
    /\ [][(watcherPc = "lock_gs" /\ watcherPc' = "lock_ss"
           /\ time_step_direction = 0)
          => (time_step' = time_step /\ held'["watcher"] = <<"gs">>)]_vars
    /\ [][(watcherPc = "lock_ss" /\ watcherPc' # "lock_ss")
          => (rc' = [owner |-> "watcher", pc |-> "clear"]
              /\ time_step' = time_step)]_vars

\* C25 witness: playback was stopped, the watcher has consumed an advance
\* signal since, and its recompute is running with the direction still 0.
C25_RecomputeAfterStop ==
    /\ advAfterStop >= 1
    /\ time_step_direction = 0
    /\ rc.owner = "watcher"
    /\ rc.pc # "idle"


Pending(id) ==
    \E i \in 1..Len(probes) : probes[i].entity = id /\ probes[i].dirty.some

C28_GoneProbesGetNoChart ==
    /\ [][(pipePc = "stage3_ss" /\ pipePc' = "recv") =>
             /\ Len(probes') = Len(probes)
             /\ \A i \in 1..Len(probes) :
                   /\ probes'[i].entity = probes[i].entity
                   /\ probes'[i].chart =
                         IF probes[i].entity \in DOMAIN image_to_generate
                         THEN SomeChart(image_to_generate[probes[i].entity].image)
                         ELSE probes[i].chart
             /\ image_to_generate' = NoImages]_vars
    /\ [][EntitiesOf(probes') # EntitiesOf(probes) =>
             /\ image_to_generate' = image_to_generate
             /\ \A id \in EntitiesOf(probes') \ EntitiesOf(probes) :
                   /\ id \notin DOMAIN image_to_generate
                   /\ ~ProbeOf(probes', id).chart.some]_vars

\* C28, the case: a pass whose stage 1 processed two probes has ended; the
\* sixth probe was created meanwhile, which evicted one of the two, whose
\* image was dropped; the other got its chart, and the sixth probe is in the
\* collection without a chart.
C28_EvictedDuringPass ==
    /\ pipePc = "recv"
    /\ nCreated = ProbeCap + 1
    /\ dropped.discarded = {1}
    /\ dropped.installed # {}
    /\ 1 \notin EntitiesOf(probes)
    /\ \A id \in dropped.installed : ProbeOf(probes, id).chart.some
    /\ ~probes[Len(probes)].chart.some


\* ---- the time index moving under a pass (SpecChartLine)

\* C29: passes of the pipeline never overlap: stage 1 starts only from the
\* service's receive, with no entry left of an earlier pass; and the chart
\* stage 3 installs on a probe is the one rendered for the line index the
\* probe holds at that moment, whatever SetPosition, SetTime or the advance
\* watcher did since stage 1.
C29_ChartOfAttachedLine ==
    /\ [][pipePc' # pipePc =>
             /\ <<pipePc, pipePc'>> \in
                    {<<"recv", "stage1">>, <<"stage1", "stage2">>,
                     <<"stage2", "stage3">>, <<"stage3", "stage3_ss">>,
                     <<"stage3_ss", "recv">>, <<"stage1", "dead">>,
                     <<"stage2", "dead">>, <<"stage3", "dead">>}
             /\ pipePc = "recv" => image_to_generate = NoImages]_vars
    /\ [][(pipePc = "stage3_ss" /\ pipePc' = "recv") =>
             \A i \in 1..Len(probes) :
                 probes[i].entity \in DOMAIN image_to_generate =>
                     /\ probes'[i].chart = SomeChart(probes'[i].line_i)
                     /\ probes'[i].line_i = probes[i].line_i
                     /\ probes'[i].line_i # UsizeMax]_vars

\* C29, the case: a pass has installed a probe's chart although the probe was
\* moved again after stage 1 of that pass (two moves, one resolution, the
\* second move still pending), with the time index moved by the playback.
C29_InstalledDespiteMoveAndAdvance ==
    /\ pipePc = "recv"
    /\ time_step # InitialTimeStep
    /\ time_step_direction # 0
    /\ \E i \in 1..Len(probes) :
          /\ probes[i].chart = SomeChart(probes[i].line_i)
          /\ probes[i].dirty.some
          /\ probes[i].moves = 2
          /\ probes[i].res = 1


\* ---- recompute_lines as a whole (SpecLinesHazard)

\* The planes a line's endpoints straddle (the lower height taken in, the
\* upper left out when the line rises; the other way round when it falls)
Straddles(st, offset_y, plane_h) ==
    LET ya == VoltageToHeight(st.volt_start) + offset_y
        yb == VoltageToHeight(st.volt_end) + offset_y
    IN  \/ ya <= plane_h /\ plane_h < yb
        \/ yb < plane_h /\ plane_h <= ya

\* C30: recompute_lines checks every line for hazards, the lines the skip
\* rule drops included: in voltage mode there is exactly one hazard box on a
\* plane when some line of src straddles it, whether or not the line got a
\* matrix; in line-load mode there is no hazard box at all.
C30_HazardBeforeSkipVoltageOnly ==
    output.done =>
        LET planes == {output.v.hazard_parts[k].y :
                           k \in 1..Len(output.v.hazard_parts)}
        IN  IF input.line_load
            THEN output.v.hazard_parts = <<>>
            ELSE /\ planes = {pl \in {PlaneLow, PlaneHigh} :
                                 \E i \in 1..Len(input.src) :
                                     Straddles(input.src[i], input.offset_y, pl)}
                 /\ Len(output.v.hazard_parts) = Cardinality(planes)

\* C30, the case: in voltage mode every line of src was dropped by the skip
\* rule and there is a hazard box all the same.
C30_DroppedLineGivesHazard ==
    /\ output.done
    /\ ~input.line_load
    /\ input.src # <<>>
    /\ output.v.dest = <<>>
    /\ output.v.hazard_parts # <<>>

====
